---- MODULE Spec2Model ----
(***************************************************************************)
(* Change-control pipeline of the Cockpit self-writer:                     *)
(*   kill switch -> path sandbox -> read old -> build report -> risk       *)
(*   engine -> moral core -> explainer -> change gate -> locks ->          *)
(*   snapshot -> atomic write -> report persistence.                       *)
(* Several threads (Workers) of several OS processes (Procs) call          *)
(* self_writer::apply_change against one filesystem and one change-log     *)
(* directory.                                                              *)
(***************************************************************************)
EXTENDS Integers, Sequences, FiniteSets, TLC

(***************************************************************************)
(* Bounds of the model.                                                    *)
(***************************************************************************)
\* the wall clock (seconds since epoch) takes the values 0..MaxTime
MaxTime == 1
\* number of apply_change calls one worker makes
MaxCalls == 1

(***************************************************************************)
(* Threads and processes.  w1 and w2 are threads of process P1, w3 is a    *)
(* thread of process P2.                                                   *)
(***************************************************************************)
Procs == {"P1", "P2"}
Workers == {"w1", "w2", "w3"}
procOf(w) == IF w = "w3" THEN "P2" ELSE "P1"

None == "none"

(***************************************************************************)
(* The file tree.  "/" is the filesystem root, "/S" a directory in it      *)
(* and "/S/S" one in that: the directories a process runs in or is         *)
(* confined to.  "/S/S/S" is the directory a path reaches from /S/S        *)
(* through one more S; it does not exist until create_directories makes    *)
(* it.  A location is <<directory, name>>.  /S holds two symbolic links:   *)
(* lnk_in points to /S/f and lnk_out points to /f.                         *)
(***************************************************************************)
Dirs == {"/", "/S", "/S/S"}
MissingDir == "/S/S/S"
Names == {"f", "lnk_in", "lnk_out"}
Locs == (Dirs \cup {MissingDir}) \X Names
\* a directory entry: absent, a regular file with its content, or a
\* symbolic link with the location it points to
NoFile == [kind |-> "none", val |-> <<>>]
RegFile(c) == [kind |-> "file", val |-> c]
SymLink(loc) == [kind |-> "link", val |-> loc]

\* A file's content is the sequence of its lines, as split_lines returns
\* them: the text between newlines, the part after the last newline
\* included, so that the empty file is <<"">>.
EmptyContent == <<"">>
PlainLine == "x = 1;"
DefLine == "void foo() {"
\* thirteen lines that define functions, and the names they define
DefLines ==
    <<DefLine, "void f01() {", "void f02() {", "void f03() {", "void f04() {",
      "void f05() {", "void f06() {", "void f07() {", "void f08() {",
      "void f09() {", "void f10() {", "void f11() {", "void f12() {">>
DefNames ==
    <<"foo", "f01", "f02", "f03", "f04", "f05", "f06", "f07", "f08", "f09",
      "f10", "f11", "f12">>
BadUtf8Line == "\\xff"
Contents == {EmptyContent, <<PlainLine>>, <<PlainLine, DefLine>>, <<BadUtf8Line>>}

\* the characters of a string
Chars(str) == [i \in 1..Len(str) |-> SubSeq(str, i, i)]
\* write(fd, buf, n) at offset 0 of a file that holds old: the first n bytes
\* are replaced and what the file held beyond them stays.  The bytes of a
\* line are its characters, BadUtf8Line being the one byte 0xFF; the bytes of
\* a file are its lines with a newline between them; LinesFrom gives the
\* lines of a sequence of bytes from byte i on, line being the part of the
\* current line read so far.
WriteOver(new, old) ==
    LET LineBytes(line) == IF line = BadUtf8Line THEN <<BadUtf8Line>> ELSE Chars(line)
        RECURSIVE FileBytes(_)
        FileBytes(content) ==
            IF Len(content) = 0 THEN <<>>
            ELSE IF Len(content) = 1 THEN LineBytes(content[1])
            ELSE LineBytes(content[1]) \o <<"\n">> \o FileBytes(Tail(content))
        RECURSIVE LinesFrom(_, _, _)
        LinesFrom(bytes, i, line) ==
            IF i > Len(bytes) THEN <<line>>
            ELSE IF bytes[i] = "\n" THEN <<line>> \o LinesFrom(bytes, i + 1, "")
            ELSE LinesFrom(bytes, i + 1, line \o bytes[i])
        n == FileBytes(new)
        o == FileBytes(old)
    IN IF Len(n) >= Len(o) THEN new
       ELSE LinesFrom(n \o SubSeq(o, Len(n) + 1, Len(o)), 1, "")

(***************************************************************************)
(* Paths are sequences of components; a leading "/" makes a path absolute. *)
(***************************************************************************)
Paths == {<<>>, <<"f">>, <<"S", "f">>, <<"/", "f">>, <<"..", "f">>, <<".", "f">>,
          <<"lnk_in">>, <<"lnk_out">>, <<"S", "lnk_out">>}

is_absolute(p) == Len(p) > 0 /\ p[1] = "/"
filename(p) == IF Len(p) = 0 THEN "" ELSE p[Len(p)]

\* the directory the component c leads to from the directory d, as the path
\* is written: the directory need not exist ("" for a component that is not
\* the name of a directory of the model)
StepDir(d, c) ==
    CASE c = "." -> d
      [] c = ".." -> IF d = MissingDir THEN "/S/S" ELSE IF d = "/S/S" THEN "/S" ELSE "/"
      [] c = "/" -> "/"
      [] c = "S" /\ d = "/" -> "/S"
      [] c = "S" /\ d = "/S" -> "/S/S"
      [] c = "S" /\ d = "/S/S" -> MissingDir
      [] OTHER -> ""

RECURSIVE WalkDir(_, _)
WalkDir(d, comps) ==
    IF comps = <<>> \/ d = "" THEN d
    ELSE WalkDir(StepDir(d, Head(comps)), Tail(comps))

\* the directory entry a path names, seen from the directory d, without
\* following a symbolic link in the last component (what rename, open with
\* O_CREAT on a fresh name and is_symlink act on)
Locate(d, p) ==
    IF Len(p) = 0 THEN <<d, "">>
    ELSE <<WalkDir(d, SubSeq(p, 1, Len(p) - 1)), p[Len(p)]>>

EntryAt(tree, loc) == IF loc \in Locs THEN tree[loc] ELSE NoFile

\* the file a location denotes once a symbolic link in it is followed
Follow(tree, loc) ==
    IF EntryAt(tree, loc).kind = "link" THEN EntryAt(tree, loc).val ELSE loc

\* std::filesystem::exists and is_symlink
exists(tree, loc) == EntryAt(tree, Follow(tree, loc)).kind = "file"
is_symlink(tree, loc) == EntryAt(tree, loc).kind = "link"

\* std::filesystem::weakly_canonical: symbolic links of the existing part of
\* the path are resolved, a part that does not exist is kept as written
weakly_canonical(tree, loc) == IF exists(tree, loc) THEN Follow(tree, loc) ELSE loc

\* loc is strictly beneath the directory root: the test is made on the
\* path as written, whether or not its directories exist
Beneath(root, loc) ==
    /\ loc[1] # ""
    /\ loc[2] # ""
    /\ \/ root = "/"
       \/ root = "/S" /\ loc[1] \in {"/S", "/S/S", MissingDir}
       \/ root = "/S/S" /\ loc[1] \in {"/S/S", MissingDir}
       \/ root = MissingDir /\ loc[1] = MissingDir

(***************************************************************************)
(* validate_path: "ok" or the reason of the sandbox violation.  root is    *)
(* ALLOWED_ROOT, or the working directory when it is unset; openat2 says   *)
(* whether the build has SYS_openat2.  Such a build resolves the path once *)
(* more with openat2, with resolve flags 0x00040000 | 0x00020000, which    *)
(* are not flags of openat2: the call fails for every path, and so does    *)
(* validate_path for every path that passed the checks before it.          *)
(***************************************************************************)
ValidatedLoc(tree, root, p) == weakly_canonical(tree, Locate(root, p))

validate_path(tree, root, openat2, p) ==
    LET full == ValidatedLoc(tree, root, p) IN
    IF Len(p) = 0 THEN "empty"
    ELSE IF is_absolute(p) THEN "absolute"
    ELSE IF \E i \in 1..Len(p) : p[i] \in {"..", "."} THEN "traversal"
    ELSE IF ~Beneath(root, full) THEN "outside_root"
    ELSE IF is_symlink(tree, full) THEN "symlink"
    ELSE IF openat2 THEN "openat2"
    ELSE "ok"

\* read_file: the content of the file, the empty string when it cannot be
\* opened; a relative path is taken from the working directory
ReadLoc(tree, cwd, p) == Follow(tree, Locate(cwd, p))

read_file(tree, cwd, p) ==
    LET e == EntryAt(tree, ReadLoc(tree, cwd, p)) IN
    IF e.kind = "file" THEN e.val ELSE EmptyContent

\* the directory entry write_atomic renames its temporary file onto
WriteLoc(cwd, p) == Locate(cwd, p)

(***************************************************************************)
(* change_audit: the report of a change.                                   *)
(***************************************************************************)
\* compute_sha256, taken to be collision free: the digest stands for its input
compute_sha256(x) == <<"sha256", x>>

RECURSIVE DiffLines(_, _, _)
DiffLines(old_lines, new_lines, i) ==
    IF i > Len(old_lines) /\ i > Len(new_lines) THEN <<>>
    ELSE LET has_old == i <= Len(old_lines)
             has_new == i <= Len(new_lines)
             here == IF has_old /\ has_new
                     THEN IF old_lines[i] = new_lines[i] THEN <<>>
                          ELSE << <<"-", old_lines[i]>>, <<"+", new_lines[i]>> >>
                     ELSE IF has_old THEN << <<"-", old_lines[i]>> >>
                     ELSE << <<"+", new_lines[i]>> >>
         IN here \o DiffLines(old_lines, new_lines, i + 1)

\* unified_diff: the two header lines naming the path, then the lines that
\* differ at the same index
unified_diff(old_str, new_str, path) ==
    << <<"--- a/", path>>, <<"+++ b/", path>> >> \o DiffLines(old_str, new_str, 1)

\* extract_symbols: the names the declaration patterns find in the lines
extract_symbols(source) ==
    {DefNames[k] : k \in {n \in DOMAIN DefLines :
                              \E j \in 1..Len(source) : source[j] = DefLines[n]}}

compute_ast_delta(old_str, new_str) ==
    [added_defs |-> extract_symbols(new_str) \ extract_symbols(old_str),
     removed_defs |-> extract_symbols(old_str) \ extract_symbols(new_str)]

(***************************************************************************)
(* Explanations.  A text is a sequence of characters; a field of the JSON  *)
(* object is a value that is a string or not (Absent: the key is missing   *)
(* or holds something else); touched_symbols is the set of the elements of *)
(* its array, with a flag telling whether the key holds an array.          *)
(***************************************************************************)
Absent == [is_string |-> FALSE, text |-> <<>>]
Str(t) == [is_string |-> TRUE, text |-> t]

\* the characters for which std::isalnum holds
AlNum ==
    {"a", "b", "c", "d", "e", "f", "g", "h", "i", "j", "k", "l", "m", "n", "o", "p", "q",
     "r", "s", "t", "u", "v", "w", "x", "y", "z",
     "A", "B", "C", "D", "E", "F", "G", "H", "I", "J", "K", "L", "M", "N", "O", "P", "Q",
     "R", "S", "T", "U", "V", "W", "X", "Y", "Z",
     "0", "1", "2", "3", "4", "5", "6", "7", "8", "9"}

\* change_gate::word_count: a word starts at every alphanumeric character
\* that follows a character that is not
RECURSIVE CountFrom(_, _, _)
CountFrom(s, i, in_word) ==
    IF i > Len(s) THEN 0
    ELSE IF s[i] \in AlNum
         THEN (IF in_word THEN 0 ELSE 1) + CountFrom(s, i + 1, TRUE)
         ELSE CountFrom(s, i + 1, FALSE)
word_count(s) == CountFrom(s, 1, FALSE)

\* a text of n one-letter words separated by sep
RECURSIVE Joined(_, _)
Joined(n, sep) ==
    IF n <= 0 THEN <<>>
    ELSE IF n = 1 THEN <<"w">>
    ELSE Joined(n - 1, sep) \o <<sep, "w">>
Words(n) == Joined(n, " ")

\* the elements of a JSON array: strings and values that are not strings
JStr(name) == [is_string |-> TRUE, v |-> name]
JNum == [is_string |-> FALSE, v |-> "42"]

NoExplanation ==
    [given |-> FALSE, why |-> Absent, risk |-> Absent, backout |-> Absent,
     tests |-> Absent, has_touched |-> FALSE, touched_symbols |-> {}]
Explanation(w, r, b, t, syms) ==
    [given |-> TRUE, why |-> Str(Words(w)), risk |-> Str(Words(r)),
     backout |-> Str(Words(b)), tests |-> Str(Words(t)),
     has_touched |-> TRUE, touched_symbols |-> {JStr(n) : n \in syms}]

WhyMin == 15
RiskMin == 5
BackoutMin == 5
TestsMin == 1

FieldErrors(key, value, min_words) ==
    IF ~value.is_string THEN << "missing:" \o key >>
    ELSE IF word_count(value.text) < min_words THEN << key \o "_too_short" >>
    ELSE <<>>

\* validate_explanation that asks for a touched symbol of the delta even
\* when the delta is empty
validate_explanation_always_matches(expl, ast_delta) ==
    LET changed == ast_delta.added_defs \cup ast_delta.removed_defs
        touched == IF expl.has_touched
                   THEN {e.v : e \in {x \in expl.touched_symbols : x.is_string}}
                   ELSE {}
    IN FieldErrors("why", expl.why, WhyMin)
       \o FieldErrors("risk", expl.risk, RiskMin)
       \o FieldErrors("backout", expl.backout, BackoutMin)
       \o FieldErrors("tests", expl.tests, TestsMin)
       \o (IF ~expl.has_touched THEN <<"missing:touched_symbols">> ELSE <<>>)
       \o (IF changed \cap touched = {} THEN <<"symbols_mismatch">> ELSE <<>>)

\* change_gate::validate_explanation: the list of errors, empty when valid
validate_explanation(expl, ast_delta) ==
    LET changed == ast_delta.added_defs \cup ast_delta.removed_defs
        touched == IF expl.has_touched
                   THEN {e.v : e \in {x \in expl.touched_symbols : x.is_string}}
                   ELSE {}
    IN FieldErrors("why", expl.why, WhyMin)
       \o FieldErrors("risk", expl.risk, RiskMin)
       \o FieldErrors("backout", expl.backout, BackoutMin)
       \o FieldErrors("tests", expl.tests, TestsMin)
       \o (IF ~expl.has_touched THEN <<"missing:touched_symbols">> ELSE <<>>)
       \o (IF changed # {} /\ changed \cap touched = {}
           THEN <<"symbols_mismatch">> ELSE <<>>)

\* the explainer lists at most ListMax names of a kind in why and puts at
\* most TouchedMax names into touched_symbols
ListMax == 6
TouchedMax == 12
Least(a, b) == IF a < b THEN a ELSE b

\* words of the list of names the explainer prints: "n/a" counts two
ListWords(names) == IF names = {} THEN 2 ELSE Least(Cardinality(names), ListMax)

\* the subsets of k elements of a set
RECURSIVE Choices(_, _)
Choices(S, k) ==
    IF k = 0 THEN {{}}
    ELSE UNION {{T \cup {x} : T \in Choices(S \ {x}, k - 1)} : x \in S}

\* the first n names of a set that is iterated in an unspecified order: any
\* n of them, that is all but any Cardinality(names) - n
FirstOf(names, n) ==
    IF Cardinality(names) <= n THEN {names}
    ELSE {names \ T : T \in Choices(names, Cardinality(names) - n)}

\* touched_symbols without the limit on the number of names
TouchedSymbols_uncapped(ast_delta) == {ast_delta.added_defs \cup ast_delta.removed_defs}

\* the lists the explainer may put into touched_symbols: the first names
\* added, at most TouchedMax, then the first names removed while there is room
TouchedSymbols(ast_delta) ==
    {A \cup R : A \in FirstOf(ast_delta.added_defs, TouchedMax),
                R \in FirstOf(ast_delta.removed_defs,
                              TouchedMax - Least(Cardinality(ast_delta.added_defs),
                                                 TouchedMax))}

\* explainer::generate_explanation, with listed one of TouchedSymbols.  The
\* text of why has fifteen fixed words, the intent, the two lists of names,
\* the diff hash and the file name: the intent and the path are text in
\* which a word ends at every character that is not alphanumeric.
\* PathText is the path as the caller writes it.
generate_explanation(report, listed) ==
    LET RECURSIVE PathText(_)
        PathText(p) ==
            IF Len(p) = 0 THEN ""
            ELSE IF Len(p) = 1 THEN p[1]
            ELSE IF p[1] = "/" THEN "/" \o PathText(Tail(p))
            ELSE p[1] \o "/" \o PathText(Tail(p))
    IN
    [given |-> TRUE,
     why |-> Str(Words(15 + word_count(Chars(report.intent))
                          + ListWords(report.ast_delta.added_defs)
                          + ListWords(report.ast_delta.removed_defs) + 1
                          + word_count(Chars(PathText(report.file))))),
     risk |-> Str(Words(14)), backout |-> Str(Words(12)), tests |-> Str(Words(16)),
     has_touched |-> TRUE,
     touched_symbols |-> {JStr(n) : n \in listed}]

(***************************************************************************)
(* State.                                                                  *)
(***************************************************************************)
VARIABLES
    fs,           \* the file tree: the entry at every location
    sentinel,     \* the kill switch sentinel file exists
    now,          \* the wall clock, seconds since the epoch
    reports,      \* the change-log directory: report id -> document of <id>.json
    snaps,        \* its snapshots directory: file name -> content
    tmp,          \* the temporary files of write_atomic: <target>.tmp_write by
                  \* the location of the target, the mkstemp ones by caller
    flock_owner,  \* the process holding LOCK_EX on apply.lock, or None
    env,          \* the environment and working directory of every process
    openat2,      \* the build has SYS_openat2
    workload,     \* the requests every worker may issue
    calls,        \* per worker: number of apply_change calls made so far
    apply_mutex,  \* per process: the thread that owns apply_mutex, or None
    lock_fd,      \* per process: lock_fd >= 0
    pc,           \* per worker: the statement of apply_change it is at
    req,          \* per worker: the arguments of its call
    old_content,  \* per worker: local old_content
    report,       \* per worker: local report
    expl,         \* per worker: local expl
    snap,         \* per worker: local snap
    result,       \* per worker: what its last call returned or threw
    kill_seen,    \* per worker: what is_tripped() returned to this call
    validated,    \* per worker: the location validate_path resolved
    touched,      \* per worker: the locations this call read, copied or replaced
    effects,      \* per worker: the writes this call made, in order
    held,         \* per worker: the locks this call acquired so far
    trace,        \* per worker: the stages this call ran, in order
    before        \* per worker: the files, reports and snapshots when it was called

shared == <<fs, sentinel, now, reports, snaps, tmp, flock_owner>>
config == <<env, openat2, workload>>
process == <<apply_mutex, lock_fd>>
locals == <<req, old_content, report, expl, snap>>
marks == <<kill_seen, validated, touched, effects, held>>
ghosts == <<marks, trace, before>>
vars == <<shared, config, process, calls, pc, locals, result, ghosts>>

\* ALLOWED_ROOT, or current_path() when it is unset or empty
AllowedRoot(P) == IF env[P].root = "" THEN env[P].cwd ELSE env[P].root

NoReport ==
    [ts |-> 0, file |-> <<>>, intent |-> "", author |-> "",
     old_sha256 |-> <<>>, new_sha256 |-> <<>>,
     diff_sha256 |-> <<>>, ast_delta |-> [added_defs |-> {}, removed_defs |-> {}],
     diff |-> <<>>, explanation |-> NoExplanation, explanation_errors |-> <<>>,
     key_id |-> "", nonce |-> "", tag |-> "",
     fdqc_recommend_allow |-> FALSE, fdqc_reasoning |-> ""]
NoRequest ==
    [path |-> <<>>, new_content |-> EmptyContent, author |-> "", intent |-> "",
     explanation |-> NoExplanation]
NoRid == <<>>
NoError == [kind |-> "", text |-> "", errors |-> <<>>]
NoResult == [returned |-> FALSE, ok |-> FALSE, error |-> NoError,
             report_id |-> NoRid, snapshot |-> <<>>, new_sha256 |-> <<>>]
Failure(kind, text, errors) ==
    [returned |-> TRUE, ok |-> FALSE,
     error |-> [kind |-> kind, text |-> text, errors |-> errors],
     report_id |-> NoRid, snapshot |-> <<>>, new_sha256 |-> <<>>]

(***************************************************************************)
(* kill switch                                                             *)
(***************************************************************************)
\* is_tripped without the check of COCKPIT_EVOLVE
is_tripped_sentinel_only(P) == sentinel

\* is_tripped without the check of the sentinel file
is_tripped_env_only(P) == env[P].evolve = "off"

is_tripped(P) == env[P].evolve = "off" \/ sentinel

\* trip(): std::ofstream ofs(p); ofs << "halt".  The stream is not checked:
\* when the file cannot be created trip returns and nothing has changed.
trip ==
    /\ sentinel' \in {TRUE, sentinel}
    /\ UNCHANGED <<fs, now, reports, snaps, tmp, flock_owner, config, process, calls,
                   pc, locals, result, ghosts>>

\* reset(): the sentinel is removed when it exists; remove throws when it
\* fails and the sentinel stays
reset ==
    /\ sentinel' \in {FALSE, sentinel}
    /\ UNCHANGED <<fs, now, reports, snaps, tmp, flock_owner, config, process, calls,
                   pc, locals, result, ghosts>>

\* a second passes on the system clock
Tick ==
    /\ now < MaxTime
    /\ now' = now + 1
    /\ UNCHANGED <<fs, sentinel, reports, snaps, tmp, flock_owner, config, process,
                   calls, pc, locals, result, ghosts>>

(***************************************************************************)
(* change_audit::build_report and the parts of save_report                 *)
(***************************************************************************)
build_report(path, old, new, author, intent, t) ==
    [NoReport EXCEPT
        !.ts = t,
        !.file = path,
        !.intent = intent,
        !.author = author,
        !.diff = unified_diff(old, new, path),
        !.old_sha256 = compute_sha256(old),
        !.new_sha256 = compute_sha256(new),
        !.diff_sha256 = compute_sha256(unified_diff(old, new, path)),
        !.ast_delta = compute_ast_delta(old, new)]

\* the report id <ts>_<base>_<diffhash12>
ReportId(r) == <<r.ts, filename(r.file), r.diff_sha256>>

\* the JSON object j as save_report first builds it: the content that is signed
Payload(r) ==
    [ts |-> r.ts, file |-> r.file, intent |-> r.intent, old_sha256 |-> r.old_sha256,
     new_sha256 |-> r.new_sha256, diff_sha256 |-> r.diff_sha256,
     ast_delta |-> r.ast_delta, diff |-> r.diff, author |-> r.author,
     explanation |-> r.explanation, explanation_errors |-> r.explanation_errors]

\* sign_ed25519(message, key, signature_out, pubkey_out): whether it signed,
\* and the signature.  After the key is decoded the function asks for
\* EVP_PKEY_sign_init, which OpenSSL does not provide for Ed25519 keys: it
\* returns false and leaves signature_out empty, for every key and message.
NoSignature == <<>>
sign_ed25519(message, signing_key) == [signed |-> FALSE, signature |-> NoSignature]

\* the JSON document j that save_report serializes when it does not sign; the
\* keys signature, key_id, nonce and tag are absent when they are empty
Document(r) ==
    [ts |-> r.ts, file |-> r.file, intent |-> r.intent, old_sha256 |-> r.old_sha256,
     new_sha256 |-> r.new_sha256, diff_sha256 |-> r.diff_sha256,
     ast_delta |-> r.ast_delta, diff |-> r.diff, author |-> r.author,
     explanation |-> r.explanation, explanation_errors |-> r.explanation_errors,
     signature |-> NoSignature,
     key_id |-> r.key_id, nonce |-> r.nonce, tag |-> r.tag]
\* the document save_report writes: with ED25519_PRIV_HEX set j is handed to
\* sign_ed25519 as first built, and the signature is added when it signed;
\* then the snapshot encryption metadata is added
SignedDocument(r, signing_key) ==
    LET outcome == sign_ed25519(Payload(r), signing_key) IN
    IF signing_key # "none" /\ outcome.signed
    THEN [Document(r) EXCEPT !.signature = outcome.signature]
    ELSE Document(r)
\* what an ofstream leaves when nothing is written to it
EmptyDocument == [Document(NoReport) EXCEPT !.ts = 0 - 1]

\* json::dump throws type_error 316 on a string that is not valid UTF-8
DumpThrows(r) == \E i \in 1..Len(r.diff) : r.diff[i][2] = BadUtf8Line

\* the function f with f[k] set to v, k added to its domain when new
Put(f, k, v) == [x \in DOMAIN f \cup {k} |-> IF x = k THEN v ELSE f[x]]

(***************************************************************************)
(* self_writer::apply_change, statement by statement                       *)
(***************************************************************************)
Step(w, next) ==
    /\ pc' = [pc EXCEPT ![w] = next]
    /\ UNCHANGED <<result, apply_mutex>>

\* an exception leaves apply_change: the lock_guard releases apply_mutex
Raise(w, failure) ==
    /\ pc' = [pc EXCEPT ![w] = "done"]
    /\ result' = [result EXCEPT ![w] = failure]
    /\ apply_mutex' = [apply_mutex EXCEPT ![procOf(w)] = None]

NoLoc == <<"", "">>

\* a thread calls apply_change(path, new_content, author, intent, explanation)
Call(w) ==
    /\ pc[w] \in {"idle", "done"}
    /\ calls[w] < MaxCalls
    /\ calls' = [calls EXCEPT ![w] = @ + 1]
    /\ \E r \in workload[w] : req' = [req EXCEPT ![w] = r]
    /\ pc' = [pc EXCEPT ![w] = "mutex"]
    /\ old_content' = [old_content EXCEPT ![w] = EmptyContent]
    /\ report' = [report EXCEPT ![w] = NoReport]
    /\ expl' = [expl EXCEPT ![w] = NoExplanation]
    /\ snap' = [snap EXCEPT ![w] = <<>>]
    /\ result' = [result EXCEPT ![w] = NoResult]
    /\ kill_seen' = [kill_seen EXCEPT ![w] = "unchecked"]
    /\ validated' = [validated EXCEPT ![w] = NoLoc]
    /\ touched' = [touched EXCEPT ![w] = {}]
    /\ effects' = [effects EXCEPT ![w] = <<>>]
    /\ held' = [held EXCEPT ![w] = {}]
    /\ trace' = [trace EXCEPT ![w] = <<>>]
    /\ before' = [before EXCEPT ![w] = <<fs, reports, snaps>>]
    /\ UNCHANGED <<shared, config, process>>

\* std::lock_guard<std::mutex> lg(apply_mutex)
lock_guard(w) ==
    /\ pc[w] = "mutex"
    /\ trace' = [trace EXCEPT ![w] = Append(@, "Start")]
    /\ apply_mutex[procOf(w)] = None
    /\ apply_mutex' = [apply_mutex EXCEPT ![procOf(w)] = w]
    /\ held' = [held EXCEPT ![w] = @ \cup {"mutex"}]
    /\ pc' = [pc EXCEPT ![w] = "kill"]
    /\ UNCHANGED <<before, shared, config, calls, lock_fd, locals, result,
                   kill_seen, validated, touched, effects>>

\* require_alive that reports the tripped switch and lets the call go on
require_alive_no_throw(w) ==
    /\ pc[w] = "kill"
    /\ trace' = [trace EXCEPT ![w] = Append(@, "KillCheck")]
    /\ kill_seen' = [kill_seen EXCEPT ![w] =
                        IF is_tripped(procOf(w)) THEN "tripped" ELSE "alive"]
    /\ Step(w, "validate")
    /\ UNCHANGED <<before, shared, config, calls, lock_fd, locals,
                   validated, touched, effects, held>>

\* kill::require_alive()
require_alive(w) ==
    /\ pc[w] = "kill"
    /\ trace' = [trace EXCEPT ![w] = Append(@, "KillCheck")]
    /\ kill_seen' = [kill_seen EXCEPT ![w] =
                        IF is_tripped(procOf(w)) THEN "tripped" ELSE "alive"]
    /\ IF is_tripped(procOf(w))
       THEN Raise(w, Failure("Halted", "Service disabled by kill switch", <<>>))
       ELSE Step(w, "validate")
    /\ UNCHANGED <<before, shared, config, calls, lock_fd, locals,
                   validated, touched, effects, held>>

\* validate_path(path)
PathValidate(w) ==
    LET P == procOf(w)
        verdict == validate_path(fs, AllowedRoot(P), openat2, req[w].path)
    IN /\ pc[w] = "validate"
       /\ trace' = [trace EXCEPT ![w] = Append(@, "PathValidate")]
       /\ IF verdict # "ok"
          THEN /\ Raise(w, Failure("SandboxViolation", verdict, <<>>))
               /\ UNCHANGED validated
          ELSE /\ Step(w, "read")
               /\ validated' = [validated EXCEPT ![w] =
                                   ValidatedLoc(fs, AllowedRoot(P), req[w].path)]
       /\ UNCHANGED <<before, shared, config, calls, lock_fd, locals,
                      kill_seen, touched, effects, held>>

\* std::string old_content = read_file(path).  read_file never throws: when
\* the ifstream of an existing file fails to open, the caller gets the empty
\* string, as for a file that does not exist.
ReadOld(w) ==
    LET P == procOf(w) IN
    /\ pc[w] = "read"
    /\ trace' = [trace EXCEPT ![w] = Append(@, "ReadOld")]
    /\ \E got \in {read_file(fs, env[P].cwd, req[w].path), EmptyContent} :
          old_content' = [old_content EXCEPT ![w] = got]
    /\ touched' = [touched EXCEPT ![w] = @ \cup {ReadLoc(fs, env[P].cwd, req[w].path)}]
    /\ Step(w, "build")
    /\ UNCHANGED <<before, shared, config, calls, lock_fd, req, report, expl, snap,
                   kill_seen, validated, effects, held>>

\* change_audit::build_report(path, old_content, new_content, author, intent)
BuildReport(w) ==
    /\ pc[w] = "build"
    /\ trace' = [trace EXCEPT ![w] = Append(@, "BuildReport")]
    /\ report' = [report EXCEPT ![w] =
                     build_report(req[w].path, old_content[w], req[w].new_content,
                                  req[w].author, req[w].intent, now)]
    /\ Step(w, "risk")
    /\ UNCHANGED <<before, shared, config, calls, lock_fd, req, old_content, expl, snap, marks>>

\* what FDQCSystem::evaluate_change may return: the engine is consulted as a
\* black box that recommends to allow or to block and gives its reasoning
RiskVerdicts ==
    {[recommend_allow |-> TRUE, reasoning |-> "explanation quality good"],
     [recommend_allow |-> FALSE, reasoning |-> "explanation quality poor"]}

\* the risk evaluation with the check of recommend_allow left out
RiskEvaluate_advice_ignored(w) ==
    /\ pc[w] = "risk"
    /\ trace' = [trace EXCEPT ![w] = Append(@, "RiskEvaluate")]
    /\ \E fdqc_result \in RiskVerdicts :
          /\ report' = [report EXCEPT
                           ![w].fdqc_recommend_allow = fdqc_result.recommend_allow,
                           ![w].fdqc_reasoning = fdqc_result.reasoning]
          /\ Step(w, "policy")
    /\ UNCHANGED <<before, shared, config, calls, lock_fd, req, old_content, expl, snap, marks>>

\* fdqc_consciousness.evaluate_change(fdqc_ctx) and the check of its advice
RiskEvaluate(w) ==
    /\ pc[w] = "risk"
    /\ trace' = [trace EXCEPT ![w] = Append(@, "RiskEvaluate")]
    /\ \E fdqc_result \in RiskVerdicts :
          /\ report' = [report EXCEPT
                           ![w].fdqc_recommend_allow = fdqc_result.recommend_allow,
                           ![w].fdqc_reasoning = fdqc_result.reasoning]
          /\ IF ~fdqc_result.recommend_allow
             THEN Raise(w, Failure("RiskRejected", fdqc_result.reasoning, <<>>))
             ELSE Step(w, "policy")
    /\ UNCHANGED <<before, shared, config, calls, lock_fd, req, old_content, expl, snap, marks>>

\* moral_core::choose(plan): the stub never blocks
choose(plan) == [block |-> FALSE, reason |-> ""]

PolicyCheck(w) ==
    LET decision == choose([file |-> req[w].path, delta_hash |-> report[w].diff_sha256]) IN
    /\ pc[w] = "policy"
    /\ trace' = [trace EXCEPT ![w] = Append(@, "PolicyCheck")]
    /\ IF decision.block
       THEN Raise(w, Failure("PolicyRejected", decision.reason, <<>>))
       ELSE Step(w, "explain")
    /\ UNCHANGED <<before, shared, config, calls, lock_fd, locals, marks>>

\* step 5: generate or accept the explanation
Explain(w) ==
    LET auto_explain == ~req[w].explanation.given \/ env[procOf(w)].auto_explain IN
    /\ pc[w] = "explain"
    /\ trace' = [trace EXCEPT ![w] = Append(@, "Explain")]
    /\ \E listed \in TouchedSymbols(report[w].ast_delta) :
          expl' = [expl EXCEPT ![w] = IF auto_explain
                                      THEN generate_explanation(report[w], listed)
                                      ELSE req[w].explanation]
    /\ Step(w, "gate")
    /\ UNCHANGED <<before, shared, config, calls, lock_fd, req, old_content, report, snap, marks>>

\* std::transform(value, tolower): the value in lower case, for the values
\* the environments of the model hold
tolower(value) ==
    CASE value \in {"ADVISORY", "Advisory"} -> "advisory"
      [] value \in {"STRICT", "Strict"} -> "strict"
      [] value \in {"OFF", "Off"} -> "off"
      [] value \in {"ON", "On"} -> "on"
      [] OTHER -> value

\* enforcement_mode that does not read EXPLAIN_POLICY
enforcement_mode_strict_only(P) == "strict"

\* change_gate::enforcement_mode(): EXPLAIN_POLICY in lower case, "strict"
\* when it is not one of the three modes
enforcement_mode(P) ==
    IF tolower(env[P].explain_policy) \in {"off", "advisory", "strict"}
    THEN tolower(env[P].explain_policy) ELSE "strict"

\* the gate with a strict rejection that reports the first error only
GateValidate_first_error(w) ==
    LET P == procOf(w)
        errs == validate_explanation(expl[w], report[w].ast_delta)
        mode == enforcement_mode(P)
    IN /\ pc[w] = "gate"
       /\ trace' = [trace EXCEPT ![w] = Append(@, "GateValidate")]
       /\ IF tolower(env[P].require_explanation) = "on"
          THEN IF errs # <<>> /\ mode = "strict"
               THEN /\ Raise(w, Failure("ExplanationInvalid", "ChangeGate strict reject",
                                        <<errs[1]>>))
                    /\ UNCHANGED report
               ELSE /\ report' = [report EXCEPT ![w].explanation = expl[w],
                                                ![w].explanation_errors = errs]
                    /\ Step(w, "lock_init")
          ELSE /\ report' = [report EXCEPT ![w].explanation = expl[w]]
               /\ Step(w, "lock_init")
       /\ UNCHANGED <<before, shared, config, calls, lock_fd, req, old_content, expl, snap, marks>>

\* step 6: change gate enforcement
GateValidate(w) ==
    LET P == procOf(w)
        errs == validate_explanation(expl[w], report[w].ast_delta)
        mode == enforcement_mode(P)
    IN /\ pc[w] = "gate"
       /\ trace' = [trace EXCEPT ![w] = Append(@, "GateValidate")]
       /\ IF tolower(env[P].require_explanation) = "on"
          THEN IF errs # <<>> /\ mode = "strict"
               THEN /\ Raise(w, Failure("ExplanationInvalid", "ChangeGate strict reject", errs))
                    /\ UNCHANGED report
               ELSE /\ report' = [report EXCEPT ![w].explanation = expl[w],
                                                ![w].explanation_errors = errs]
                    /\ Step(w, "lock_init")
          ELSE /\ report' = [report EXCEPT ![w].explanation = expl[w]]
               /\ Step(w, "lock_init")
       /\ UNCHANGED <<before, shared, config, calls, lock_fd, req, old_content, expl, snap, marks>>

\* lazy initialisation of lock_fd: the change-log directory is created
\* (create_directories may throw) and apply.lock opened; when the open fails
\* lock_fd stays -1
LockInit(w) ==
    LET P == procOf(w) IN
    /\ pc[w] = "lock_init"
    /\ trace' = [trace EXCEPT ![w] = Append(@, "LockInit")]
    /\ IF ~lock_fd[P]
       THEN \/ \E opened \in BOOLEAN :
                  /\ lock_fd' = [lock_fd EXCEPT ![P] = opened]
                  /\ effects' = [effects EXCEPT ![w] =
                                    IF opened THEN Append(@, "lock_file") ELSE @]
                  /\ Step(w, "flock")
            \/ /\ Raise(w, Failure("IoError", "create_directories", <<>>))
               /\ UNCHANGED <<lock_fd, effects>>
       ELSE /\ Step(w, "flock")
            /\ UNCHANGED <<lock_fd, effects>>
    /\ UNCHANGED <<before, shared, config, calls, locals, kill_seen, validated, touched, held>>

\* ::flock(lock_fd, LOCK_EX), skipped when lock_fd < 0.  The lock belongs to
\* the open file description: the process that holds it is granted it again.
AcquireFlock(w) ==
    LET P == procOf(w) IN
    /\ pc[w] = "flock"
    /\ trace' = [trace EXCEPT ![w] = Append(@, "AcquireLocks")]
    /\ IF lock_fd[P]
       THEN \/ /\ flock_owner \in {None, P}
               /\ flock_owner' = P
               /\ held' = [held EXCEPT ![w] = @ \cup {"flock"}]
               /\ Step(w, "snapshot")
            \/ /\ Raise(w, Failure("IoError", "Failed to acquire cross-process lock", <<>>))
               /\ UNCHANGED <<flock_owner, held>>
       ELSE /\ Step(w, "snapshot")
            /\ UNCHANGED <<flock_owner, held>>
    /\ UNCHANGED <<before, fs, sentinel, now, reports, snaps, tmp, config, calls, lock_fd, locals,
                   kill_seen, validated, touched, effects>>

\* the name of a snapshot file: <filename>.<pid>.bak or <filename>.<pid>.enc
SnapshotName(P, path, ext) == <<filename(path), P, ext>>

\* what encrypt_and_write_snapshot stores: the AES-256-GCM ciphertext
Ciphertext(plain) == <<"aes-256-gcm">> \o plain

\* snapshot_file returns "" without copying when the source does not exist
SnapshotSkipped(tree, cwd, path) == ~exists(tree, Locate(cwd, path))

\* the function f without the key k
Drop(f, k) == [x \in DOMAIN f \ {k} |-> f[x]]

\* step 7: snapshot of the original file.  With a usable SNAPSHOT_KEY_HEX and
\* a non-empty old_content, encrypt_and_write_snapshot encrypts the old
\* content into <name>.<pid>.enc:
\*   it writes the ciphertext and the metadata goes on the report;
\*   or the write fails after the stream was checked: the file is left empty
\*     and the metadata goes on the report all the same;
\*   or it fails before it has a cipher context and returns false;
\*   or it fails later, removes the file of that name and returns false;
\*   or create_directories(snapshot_dir) throws.
\* When there is no key, the key is unusable or the encryption returned
\* false, snapshot_file copies the file as it is now into <name>.<pid>.bak:
\* create_directories and copy_file throw when they fail, and a copy_file
\* that fails may have created or truncated the destination.
Snapshot(w) ==
    LET P == procOf(w)
        path == req[w].path
        use_key == env[P].snapshot_key = "valid" /\ old_content[w] # EmptyContent
        enc == SnapshotName(P, path, "enc")
        bak == SnapshotName(P, path, "bak")
        src == ReadLoc(fs, env[P].cwd, path)
        Copy(dir, done) ==
            IF SnapshotSkipped(fs, env[P].cwd, path)
            THEN /\ snaps' = dir
                 /\ snap' = [snap EXCEPT ![w] = <<>>]
                 /\ effects' = [effects EXCEPT ![w] = done]
                 /\ Step(w, "write")
                 /\ UNCHANGED touched
            ELSE \/ /\ snaps' = Put(dir, bak, EntryAt(fs, src).val)
                    /\ snap' = [snap EXCEPT ![w] = bak]
                    /\ touched' = [touched EXCEPT ![w] = @ \cup {src}]
                    /\ effects' = [effects EXCEPT ![w] = Append(done, "snapshot")]
                    /\ Step(w, "write")
                 \/ /\ snaps' = dir
                    /\ effects' = [effects EXCEPT ![w] = done]
                    /\ \E text \in {"create_directories", "copy_file"} :
                          Raise(w, Failure("IoError", text, <<>>))
                    /\ UNCHANGED <<snap, touched>>
                 \/ /\ snaps' = Put(dir, bak, EmptyContent)
                    /\ touched' = [touched EXCEPT ![w] = @ \cup {src}]
                    /\ effects' = [effects EXCEPT ![w] = Append(done, "snapshot_truncated")]
                    /\ Raise(w, Failure("IoError", "copy_file", <<>>))
                    /\ UNCHANGED snap
    IN /\ pc[w] = "snapshot"
       /\ trace' = [trace EXCEPT ![w] = Append(@, "Snapshot")]
       /\ \/ /\ use_key
             /\ \E stored \in {Ciphertext(old_content[w]), EmptyContent} :
                   /\ snaps' = Put(snaps, enc, stored)
                   /\ effects' = [effects EXCEPT ![w] =
                                     Append(@, IF stored = EmptyContent
                                               THEN "snapshot_truncated" ELSE "snapshot")]
             /\ snap' = [snap EXCEPT ![w] = enc]
             /\ report' = [report EXCEPT ![w].key_id = "key", ![w].nonce = "nonce",
                                         ![w].tag = "tag"]
             /\ Step(w, "write")
             /\ UNCHANGED touched
          \/ /\ use_key
             /\ Raise(w, Failure("IoError", "create_directories", <<>>))
             /\ UNCHANGED <<snaps, snap, report, touched, effects>>
          \/ /\ use_key
             /\ \/ Copy(snaps, effects[w])
                \/ Copy(Drop(snaps, enc),
                        IF enc \in DOMAIN snaps
                        THEN Append(effects[w], "snapshot_removed") ELSE effects[w])
             /\ UNCHANGED report
          \/ /\ ~use_key
             /\ Copy(snaps, effects[w])
             /\ UNCHANGED report
       /\ UNCHANGED <<before, fs, sentinel, now, reports, tmp, flock_owner, config, calls, lock_fd,
                      req, old_content, expl, kill_seen, validated, held>>

\* step 8: write_atomic(path, new_content).  The function opens with the
\* temporary file <target>.tmp_write, one name for every caller, and turns to
\* a uniquely named temporary file (mkstemp) when a write to the first one
\* fails.  The source breaks off inside that branch: what follows a first
\* write loop that succeeds, and what follows the rename of the second file,
\* is taken from the specification (the temporary file is renamed onto the
\* target; on any failure it is removed and the target left untouched).
\* A temporary file: whether the name exists, its content, and whether the
\* file that had the name was renamed onto the target while another caller
\* had it open for writing.
NoTmp == [exists |-> FALSE, val |-> <<>>, moved |-> FALSE]
TmpFile(c) == [exists |-> TRUE, val |-> c, moved |-> FALSE]
MovedTmp == [exists |-> FALSE, val |-> <<>>, moved |-> TRUE]
TmpAt(loc) == IF loc \in DOMAIN tmp THEN tmp[loc] ELSE NoTmp
\* the name of the file mkstemp makes for a caller: no two callers get the same
UniqueTmp(w) == <<"XXXXXX", w>>

\* target.parent_path() is empty for a path of one component
has_parent_path(p) == Len(p) > 1

\* create_directories(target.parent_path()), which throws when the parent
\* path is empty, and open(<target>.tmp_write, O_WRONLY | O_CREAT | O_TRUNC)
open_tmp(w) ==
    LET target == WriteLoc(env[procOf(w)].cwd, req[w].path) IN
    /\ pc[w] = "write"
    /\ trace' = [trace EXCEPT ![w] = Append(@, "AtomicWrite")]
    /\ IF ~has_parent_path(req[w].path)
       THEN /\ Raise(w, Failure("IoError", "create_directories", <<>>))
            /\ UNCHANGED tmp
       ELSE \/ /\ tmp' = [tmp EXCEPT ![target] = TmpFile(EmptyContent)]
               /\ Step(w, "tmp_write")
            \/ /\ \E text \in {"create_directories", "Failed to open temporary file for write"} :
                     Raise(w, Failure("IoError", text, <<>>))
               /\ UNCHANGED tmp
    /\ UNCHANGED <<before, fs, sentinel, now, reports, snaps, flock_owner, config, calls,
                   lock_fd, locals, marks>>

\* the first write loop, which runs when the content is not empty.  The bytes
\* go to the open file, from its start: <target>.tmp_write while it has that
\* name, the target itself once another caller renamed the file onto it.  The
\* file was truncated when it was opened and not since: what another caller
\* wrote into it meanwhile beyond the length of this content stays.  A write
\* that fails closes and unlinks <target>.tmp_write and turns to mkstemp.
write_tmp(w) ==
    LET target == WriteLoc(env[procOf(w)].cwd, req[w].path) IN
    /\ pc[w] = "tmp_write"
    /\ \/ /\ IF TmpAt(target).exists
             THEN /\ tmp' = [tmp EXCEPT ![target] =
                                    TmpFile(WriteOver(req[w].new_content, @.val))]
                  /\ UNCHANGED <<fs, touched, effects>>
             ELSE IF TmpAt(target).moved
             THEN /\ fs' = [fs EXCEPT ![target] =
                                  RegFile(WriteOver(req[w].new_content, @.val))]
                  /\ touched' = [touched EXCEPT ![w] = @ \cup {target}]
                  /\ effects' = [effects EXCEPT ![w] = Append(@, "write")]
                  /\ tmp' = [tmp EXCEPT ![target] = NoTmp]
             ELSE UNCHANGED <<fs, tmp, touched, effects>>
          /\ Step(w, "legacy_rename")
       \/ /\ req[w].new_content # EmptyContent
          /\ tmp' = [tmp EXCEPT ![target] = NoTmp]
          /\ Step(w, "mkstemp")
          /\ UNCHANGED <<fs, touched, effects>>
    /\ UNCHANGED <<before, sentinel, now, reports, snaps, flock_owner, config, calls,
                   lock_fd, locals, kill_seen, validated, held, trace>>

\* rename(<target>.tmp_write, target): the target is replaced in one step, or
\* the temporary file is unlinked and the target is as before; the rename
\* fails when the file no longer has its name
rename_tmp_write(w) ==
    LET target == WriteLoc(env[procOf(w)].cwd, req[w].path) IN
    /\ pc[w] = "legacy_rename"
    /\ \/ /\ TmpAt(target).exists
          /\ fs' = [fs EXCEPT ![target] = RegFile(tmp[target].val)]
          /\ tmp' = [tmp EXCEPT ![target] =
                         IF \E v \in Workers \ {w} :
                               /\ pc[v] = "tmp_write"
                               /\ WriteLoc(env[procOf(v)].cwd, req[v].path) = target
                         THEN MovedTmp ELSE NoTmp]
          /\ touched' = [touched EXCEPT ![w] = @ \cup {target}]
          /\ effects' = [effects EXCEPT ![w] = Append(@, "write")]
          /\ Step(w, "persist")
       \/ /\ tmp' = [tmp EXCEPT ![target] = IF @.exists THEN NoTmp ELSE @]
          /\ Raise(w, Failure("IoError", "Failed to rename temporary file into place", <<>>))
          /\ UNCHANGED <<fs, touched, effects>>
    /\ UNCHANGED <<before, sentinel, now, reports, snaps, flock_owner, config, calls, lock_fd,
                   locals, kill_seen, validated, held, trace>>

\* after a failed write: create_directories(dir), mkstemp(<target>.XXXXXX),
\* fchmod, the write loop and fsync.  The temporary file receives the whole
\* content, or a failure of one of them closes and unlinks it and throws.
mkstemp_tmp(w) ==
    /\ pc[w] = "mkstemp"
    /\ \/ /\ tmp' = [tmp EXCEPT ![UniqueTmp(w)] = TmpFile(req[w].new_content)]
          /\ Step(w, "rename")
       \/ /\ \E text \in {"create_directories",
                          "Failed to create temporary file in target directory",
                          "Failed to set permissions on temporary file",
                          "Write to temporary file failed",
                          "fsync on temporary file failed"} :
                Raise(w, Failure("IoError", text, <<>>))
          /\ UNCHANGED tmp
    /\ UNCHANGED <<before, fs, sentinel, now, reports, snaps, flock_owner, config, calls,
                   lock_fd, locals, marks, trace>>

\* rename(tmp_path, target) of the file mkstemp made: the target is replaced
\* in one step, or the temporary file is unlinked and the target is as before
rename_tmp(w) ==
    LET P == procOf(w)
        target == WriteLoc(env[P].cwd, req[w].path)
    IN /\ pc[w] = "rename"
       /\ \/ /\ fs' = [fs EXCEPT ![target] = RegFile(tmp[UniqueTmp(w)].val)]
             /\ tmp' = [tmp EXCEPT ![UniqueTmp(w)] = NoTmp]
             /\ touched' = [touched EXCEPT ![w] = @ \cup {target}]
             /\ effects' = [effects EXCEPT ![w] = Append(@, "write")]
             /\ Step(w, "persist")
          \/ /\ tmp' = [tmp EXCEPT ![UniqueTmp(w)] = NoTmp]
             /\ Raise(w, Failure("IoError", "Failed to rename temporary file into place", <<>>))
             /\ UNCHANGED <<fs, touched, effects>>
       /\ UNCHANGED <<before, sentinel, now, reports, snaps, flock_owner, config, calls, lock_fd,
                      locals, kill_seen, validated, held, trace>>

write_atomic(w) ==
    \/ open_tmp(w) \/ write_tmp(w) \/ rename_tmp_write(w)
    \/ mkstemp_tmp(w) \/ rename_tmp(w)

\* step 9: change_audit::save_report(report, change_dir).
\*   create_directories(out_dir) may throw;
\*   std::ofstream ofs(out_path) creates or truncates <rid>.json, and an open
\*     that fails goes unnoticed;
\*   j.dump(2) throws on invalid UTF-8, after the file was opened;
\*   otherwise the document is written, which is not checked either: a write
\*     that fails leaves the file empty; rid is returned in every case.
save_report(w) ==
    LET rid == ReportId(report[w]) IN
    /\ pc[w] = "persist"
    /\ trace' = [trace EXCEPT ![w] = Append(@, "PersistReport")]
    /\ \/ /\ Raise(w, Failure("IoError", "create_directories", <<>>))
          /\ UNCHANGED <<reports, effects>>
       \/ \E opened \in BOOLEAN :
             IF DumpThrows(report[w])
             THEN /\ reports' = IF opened THEN Put(reports, rid, EmptyDocument) ELSE reports
                  /\ effects' = [effects EXCEPT ![w] =
                                    IF opened THEN Append(@, "report_truncated") ELSE @]
                  /\ Raise(w, Failure("JsonError", "type_error.316", <<>>))
             ELSE \E written \in BOOLEAN :
                  /\ reports' = IF ~opened THEN reports
                                ELSE IF written
                                THEN Put(reports, rid,
                                         SignedDocument(report[w], env[procOf(w)].signing_key))
                                ELSE Put(reports, rid, EmptyDocument)
                  /\ effects' = [effects EXCEPT ![w] =
                                    IF ~opened THEN @
                                    ELSE IF written THEN Append(@, "report")
                                    ELSE Append(@, "report_truncated")]
                  /\ Step(w, "unlock")
    /\ UNCHANGED <<before, fs, sentinel, now, snaps, tmp, flock_owner, config, calls, lock_fd,
                   locals, kill_seen, validated, touched, held>>

\* ::flock(lock_fd, LOCK_UN), skipped when lock_fd < 0
Unlock(w) ==
    LET P == procOf(w) IN
    /\ pc[w] = "unlock"
    /\ trace' = [trace EXCEPT ![w] = Append(@, "ReleaseLocks")]
    /\ flock_owner' = IF lock_fd[P] THEN None ELSE flock_owner
    /\ Step(w, "return")
    /\ UNCHANGED <<before, fs, sentinel, now, reports, snaps, tmp, config, calls, lock_fd,
                   locals, marks>>

\* the ApplyResult is built and returned: the lock_guard releases apply_mutex
Return(w) ==
    LET P == procOf(w) IN
    /\ pc[w] = "return"
    /\ pc' = [pc EXCEPT ![w] = "done"]
    /\ result' = [result EXCEPT ![w] =
                     [returned |-> TRUE, ok |-> TRUE, error |-> NoError,
                      report_id |-> ReportId(report[w]), snapshot |-> snap[w],
                      new_sha256 |-> report[w].new_sha256]]
    /\ apply_mutex' = [apply_mutex EXCEPT ![P] = None]
    /\ UNCHANGED <<before, shared, config, calls, lock_fd, locals, marks, trace>>

apply_change(w) ==
    \/ Call(w) \/ lock_guard(w) \/ require_alive(w) \/ PathValidate(w)
    \/ ReadOld(w) \/ BuildReport(w) \/ RiskEvaluate(w) \/ PolicyCheck(w)
    \/ Explain(w) \/ GateValidate(w) \/ LockInit(w) \/ AcquireFlock(w)
    \/ Snapshot(w) \/ write_atomic(w) \/ save_report(w) \/ Unlock(w) \/ Return(w)

Next == (\E w \in Workers : apply_change(w)) \/ trip \/ reset \/ Tick

(***************************************************************************)
(* Initial states.                                                         *)
(***************************************************************************)
\* /f exists, /S/f does not; the two links of /S
InitialTree ==
    [loc \in Locs |->
        CASE loc = <<"/", "f">> -> RegFile(<<PlainLine>>)
          [] loc = <<"/S", "lnk_in">> -> SymLink(<<"/S", "f">>)
          [] loc = <<"/S", "lnk_out">> -> SymLink(<<"/", "f">>)
          [] OTHER -> NoFile]

\* the tree in which /S/f exists as well
SourceTree == [InitialTree EXCEPT ![<<"/S", "f">>] = RegFile(<<PlainLine>>)]

\* the defaults of the environment: nothing set, working directory "/"
DefaultEnv ==
    [cwd |-> "/", root |-> "", explain_policy |-> "strict",
     require_explanation |-> "on", evolve |-> "on", auto_explain |-> FALSE,
     snapshot_key |-> "none", signing_key |-> "none"]

GoodExplanation == Explanation(15, 5, 5, 1, {"foo"})
ShortWhy == Explanation(14, 5, 5, 1, {"foo"})
WrongSymbols == Explanation(15, 5, 5, 1, {"bar"})
NoFields == [NoExplanation EXCEPT !.given = TRUE]
Explanations == {NoExplanation, GoodExplanation, ShortWhy, WrongSymbols, NoFields}

Requests(paths, contents, explanations) ==
    [path : paths, new_content : contents, author : {"dev"}, intent : {""},
     explanation : explanations]

InitFrom(trees, envs, builds, menus) ==
    /\ fs \in trees
    /\ sentinel = FALSE
    /\ now = 0
    /\ reports = << >>
    /\ snaps = << >>
    /\ tmp = [k \in Locs \cup {UniqueTmp(w) : w \in Workers} |-> NoTmp]
    /\ flock_owner = None
    /\ env \in envs
    /\ openat2 \in builds
    /\ workload \in menus
    /\ calls = [w \in Workers |-> 0]
    /\ apply_mutex = [P \in Procs |-> None]
    /\ lock_fd = [P \in Procs |-> FALSE]
    /\ pc = [w \in Workers |-> "idle"]
    /\ req = [w \in Workers |-> NoRequest]
    /\ old_content = [w \in Workers |-> EmptyContent]
    /\ report = [w \in Workers |-> NoReport]
    /\ expl = [w \in Workers |-> NoExplanation]
    /\ snap = [w \in Workers |-> <<>>]
    /\ result = [w \in Workers |-> NoResult]
    /\ kill_seen = [w \in Workers |-> "unchecked"]
    /\ validated = [w \in Workers |-> NoLoc]
    /\ touched = [w \in Workers |-> {}]
    /\ effects = [w \in Workers |-> <<>>]
    /\ held = [w \in Workers |-> {}]
    /\ trace = [w \in Workers |-> <<>>]
    /\ before = [w \in Workers |-> <<fs, << >>, << >> >>]
InitWith(envs, builds, menus) == InitFrom({SourceTree}, envs, builds, menus)

\* Concurrent calls with the default environment, for the file S/f: either two
\* threads of one process (w1 and w2) or two processes (w1 and w3).
ConcurrentRequests ==
    Requests({<<"S", "f">>}, {<<PlainLine, DefLine>>}, {GoodExplanation})
ConcurrentMenus ==
    {[w \in Workers |-> IF w \in {"w1", second} THEN ConcurrentRequests ELSE {}] :
        second \in {"w2", "w3"}}
Init == InitWith({[P \in Procs |-> DefaultEnv]}, {FALSE}, ConcurrentMenus)
Spec == Init /\ [][Next]_vars

\* The sandbox: one thread, whose process runs in "/", "/S" or "/S/S" with
\* ALLOWED_ROOT unset or one of the three, on a build with or without
\* openat2, issues requests for every path.
SandboxEnvs ==
    {[P \in Procs |-> IF P = "P1" THEN [DefaultEnv EXCEPT !.cwd = c, !.root = r]
                      ELSE DefaultEnv] : c \in Dirs, r \in {""} \cup Dirs}
SandboxRequests == Requests(Paths, {<<PlainLine, DefLine>>}, {GoodExplanation})
InitSandbox ==
    InitFrom({InitialTree}, SandboxEnvs, BOOLEAN,
             {[w \in Workers |-> IF w = "w1" THEN SandboxRequests ELSE {}]})
SpecSandbox == InitSandbox /\ [][Next]_vars

\* The gates: one thread, under every explanation policy (off written as
\* Off, with REQUIRE_EXPLANATION=On), with the gate required or not and the
\* kill switch override on or off, submits one of the requests, with every
\* kind of explanation.
GateEnvs ==
    {[P \in Procs |->
        IF P = "P1" THEN [DefaultEnv EXCEPT !.explain_policy = m[1],
                                            !.require_explanation = m[2],
                                            !.evolve = e]
        ELSE DefaultEnv] :
        m \in {<<"strict", "on">>, <<"advisory", "on">>, <<"Off", "On">>, <<"strict", "off">>},
        e \in {"on", "off"}}
GateRequests == Requests({<<"S", "f">>}, {<<PlainLine>>, <<PlainLine, DefLine>>}, Explanations)
GateMenus == {[w \in Workers |-> IF w = "w1" THEN {r} ELSE {}] : r \in GateRequests}
InitGate == InitWith(GateEnvs, {FALSE}, GateMenus)
SpecGate == InitGate /\ [][Next]_vars

\* The atomic write: one thread with the default environment writes f, a path
\* without directory part, or S/f, which exists or not, with every content.
WriteRequests == Requests({<<"f">>, <<"S", "f">>}, Contents, {GoodExplanation})
WriteMenus == {[w \in Workers |-> IF w = "w1" THEN {r} ELSE {}] : r \in WriteRequests}
InitWrite ==
    InitFrom({InitialTree, SourceTree}, {[P \in Procs |-> DefaultEnv]}, {FALSE}, WriteMenus)
SpecWrite == InitWrite /\ [][Next]_vars

\* The explanations: one thread, with the gate required and strict, the two
\* variables written in lower or in upper case, submits a change with an empty or a non-empty symbol delta and one
\* of the explanations: texts of 14 and 15 words, words separated by
\* punctuation, fifteen letters in one run, an empty text, missing keys,
\* touched_symbols that is not an array or holds values that are not strings.
HyphenWhy == [GoodExplanation EXCEPT !.why = Str(Joined(15, "-"))]
OneRunWhy == [GoodExplanation EXCEPT !.why = Str([i \in 1..15 |-> "w"])]
EmptyTests == [GoodExplanation EXCEPT !.tests = Str(<<>>)]
ShortRisk == Explanation(15, 4, 5, 1, {"foo"})
NotAnArray == [GoodExplanation EXCEPT !.has_touched = FALSE, !.touched_symbols = {}]
NumbersListed == [GoodExplanation EXCEPT !.touched_symbols = {JNum}]
MixedList == [GoodExplanation EXCEPT !.touched_symbols = {JStr("foo"), JNum}]
NothingTouched == Explanation(15, 5, 5, 1, {})
GateInputs ==
    {GoodExplanation, ShortWhy, WrongSymbols, NoFields, HyphenWhy, OneRunWhy, EmptyTests,
     ShortRisk, NotAnArray, NumbersListed, MixedList, NothingTouched}
ExplainEnvs ==
    {[P \in Procs |-> IF P = "P1" THEN [DefaultEnv EXCEPT !.explain_policy = m[1],
                                                          !.require_explanation = m[2]]
                      ELSE DefaultEnv] :
        m \in {<<"strict", "on">>, <<"STRICT", "ON">>}}
ExplainRequests == Requests({<<"S", "f">>}, {<<PlainLine>>, <<PlainLine, DefLine>>}, GateInputs)
ExplainMenus == {[w \in Workers |-> IF w = "w1" THEN {r} ELSE {}] : r \in ExplainRequests}
InitExplain == InitWith(ExplainEnvs, {FALSE}, ExplainMenus)
SpecExplain == InitExplain /\ [][Next]_vars

\* The kill switch across processes: a thread of P1 and a thread of P2, every
\* process with COCKPIT_EVOLVE on, off or OFF, while the sentinel is created
\* and removed.  The two threads submit an absolute path, which is rejected
\* right after the kill switch check; or one thread alone changes S/f.
KillEnvs ==
    {[P \in Procs |-> [DefaultEnv EXCEPT !.evolve = IF P = "P1" THEN e1 ELSE e2]] :
        e1 \in {"on", "off", "OFF"}, e2 \in {"on", "off", "OFF"}}
KillRequests == Requests({<<"/", "f">>}, {<<PlainLine>>}, {GoodExplanation})
KillMenus == {[w \in Workers |-> IF w \in {"w1", "w3"} THEN KillRequests ELSE {}]}
InitKill ==
    \/ InitWith(KillEnvs, {FALSE}, KillMenus)
    \/ InitWith({[P \in Procs |-> DefaultEnv]}, {FALSE},
                {[w \in Workers |->
                    IF w = "w1"
                    THEN Requests({<<"S", "f">>}, {<<PlainLine, DefLine>>}, {GoodExplanation})
                    ELSE {}]})
SpecKill == InitKill /\ [][Next]_vars

\* Snapshots and signatures: one thread, with SNAPSHOT_KEY_HEX unset, usable
\* or unusable and ED25519_PRIV_HEX unset, usable or unusable, replaces the
\* existing file S/f or creates it.
SnapshotEnvs ==
    {[P \in Procs |-> IF P = "P1" THEN [DefaultEnv EXCEPT !.snapshot_key = k,
                                                          !.signing_key = s]
                      ELSE DefaultEnv] :
        k \in {"none", "valid", "invalid"}, s \in {"none", "valid", "invalid"}}
SnapshotRequests == Requests({<<"S", "f">>}, {<<PlainLine, DefLine>>}, {GoodExplanation})
SnapshotMenus == {[w \in Workers |-> IF w = "w1" THEN {r} ELSE {}] : r \in SnapshotRequests}
InitSnapshot == InitFrom({InitialTree, SourceTree}, SnapshotEnvs, {FALSE}, SnapshotMenus)
SpecSnapshot == InitSnapshot /\ [][Next]_vars

\* The explainer: one thread of a process with AUTO_EXPLAIN on, with or
\* without an explanation of its own and with an intent of three words,
\* changes the file S/f, which defines six functions, into content that
\* defines the same six, none, or seven others.
Defs(from, to) == SubSeq(DefLines, from, to)
AutoTrees ==
    {[InitialTree EXCEPT ![<<"/S", "f">>] = RegFile(c)] :
        c \in {Defs(1, 6)}}
AutoEnvs ==
    {[P \in Procs |-> IF P = "P1" THEN [DefaultEnv EXCEPT !.auto_explain = TRUE]
                      ELSE DefaultEnv]}
AutoRequests ==
    {[r EXCEPT !.intent = "fix the bug"] :
        r \in Requests({<<"S", "f">>}, {Defs(1, 6), <<PlainLine>>, Defs(7, 13)},
                       {NoExplanation, ShortWhy})}
AutoMenus == {[w \in Workers |-> IF w = "w1" THEN {r} ELSE {}] : r \in AutoRequests}
InitAuto == InitFrom(AutoTrees, AutoEnvs, {FALSE}, AutoMenus)
SpecAuto == InitAuto /\ [][Next]_vars

\* Progress: a thread of P1 and a thread of P2 change the file S/f, the
\* first into a line of twelve bytes and the second into one of six.  Every
\* thread that can take a step of its call eventually takes one: no thread
\* stalls or crashes inside a stage.  flock(LOCK_EX) blocks while another
\* process holds the lock, and nothing makes it return with an error instead.
LiveMenus ==
    {[w \in Workers |->
        IF w \in {"w1", "w3"}
        THEN Requests({<<"S", "f">>}, {IF w = "w1" THEN <<DefLine>> ELSE <<PlainLine>>},
                      {GoodExplanation})
        ELSE {}]}
InitLive == InitWith({[P \in Procs |-> DefaultEnv]}, {FALSE}, LiveMenus)
FlockError(w) == result[w].error.text = "Failed to acquire cross-process lock"
Running(w) == apply_change(w) /\ ~FlockError(w)'
SpecLive == InitLive /\ [][Next]_vars /\ \A w \in Workers : WF_vars(Running(w))

(***************************************************************************)
(* Properties.                                                             *)
(***************************************************************************)
Range(f) == {f[i] : i \in DOMAIN f}
Count(f, x) == Cardinality({i \in DOMAIN f : f[i] = x})
Returns(w) == pc[w] # "done" /\ pc'[w] = "done"

\* C1: whatever the allowed root and the working directory are, the file
\* apply_change reads as old content, snapshots and replaces is the file
\* that validate_path resolved, and it lies beneath the allowed root.
C1_WritesStayInSandbox ==
    \A w \in Workers : \A loc \in touched[w] :
        /\ loc = validated[w]
        /\ Beneath(AllowedRoot(procOf(w)), loc)

\* C2: a call that finds the kill switch tripped fails with the halted
\* error after the kill check, and no file, snapshot or report was created
\* or modified: the tree, the change log and the snapshots are as they were
\* when the call was made.
C2_TrippedCallHalts ==
    \A w \in Workers :
        kill_seen[w] = "tripped" =>
            /\ pc[w] = "done"
            /\ ~result[w].ok
            /\ result[w].error.kind = "Halted"
            /\ trace[w] = <<"Start", "KillCheck">>
            /\ effects[w] = <<>>
            /\ <<fs, reports, snaps>> = before[w]
C2_Witness ==
    \E w \in Workers :
        /\ kill_seen[w] = "tripped"
        /\ result[w].error.kind = "Halted"
        /\ sentinel
        /\ fs[<<"/", "f">>] = RegFile(<<PlainLine>>)

\* C3, as stated: at no moment when the kill switch is tripped does an
\* apply_change write its snapshot, replace the target or write its report.
C3_NoWriteWhileTripped ==
    [][\A w \in Workers :
          (Len(effects'[w]) > Len(effects[w])
             /\ effects'[w][Len(effects'[w])] \in {"snapshot", "write", "report"})
          => ~is_tripped(procOf(w))]_vars

\* C3, amended: every call checks the kill switch once, before any of its
\* writes: it passes the check only when neither the sentinel file exists
\* nor the override is "off" at that moment, and it creates the lock file,
\* writes a snapshot, replaces the target or writes a report only after it
\* passed.  A trip after the check does not stop the call.
C3_WritesFollowAliveCheck ==
    [][\A w \in Workers :
          /\ (pc[w] = "kill" /\ pc'[w] # "kill" /\ pc'[w] # "done")
                => (~sentinel /\ env[procOf(w)].evolve # "off")
          /\ Len(effects'[w]) > Len(effects[w])
                => (kill_seen[w] = "alive" /\ trace[w][2] = "KillCheck")]_vars
C3_Witness ==
    \E w \in Workers :
        /\ "write" \in Range(effects[w])
        /\ kill_seen[w] = "alive"
        /\ sentinel
        /\ pc[w] = "persist"

\* C4, as stated: a risk veto fails the call with the engine's reasoning,
\* nothing is written and no lock is taken.
C4_RiskVetoTakesNoLock ==
    \A w \in Workers :
        result[w].error.kind = "RiskRejected" =>
            /\ result[w].error.text = report[w].fdqc_reasoning
            /\ effects[w] = <<>>
            /\ held[w] = {}

\* C4, amended: when the risk engine returns recommend_allow = false the
\* call fails with the risk-rejected error carrying the engine's reasoning;
\* the tree, the snapshots and the reports are unchanged and the
\* cross-process file lock is not taken.  The in-process mutex, taken at
\* entry, is the only lock the call held, and it is released.
C4_RiskVetoAborts ==
    \A w \in Workers :
        (report[w].fdqc_reasoning # "" /\ ~report[w].fdqc_recommend_allow) =>
            /\ pc[w] = "done"
            /\ ~result[w].ok
            /\ result[w].error.kind = "RiskRejected"
            /\ result[w].error.text = report[w].fdqc_reasoning
            /\ effects[w] = <<>>
            /\ <<fs, reports, snaps>> = before[w]
            /\ held[w] = {"mutex"}
            /\ apply_mutex[procOf(w)] # w
C4_Witness ==
    \E w \in Workers :
        /\ result[w].error.kind = "RiskRejected"
        /\ result[w].error.text = "explanation quality poor"
        /\ trace[w][Len(trace[w])] = "RiskEvaluate"

\* the gate ran in strict mode and validation reported errors
StrictErrors(w) ==
    /\ "GateValidate" \in Range(trace[w])
    /\ tolower(env[procOf(w)].require_explanation) = "on"
    /\ enforcement_mode(procOf(w)) = "strict"
    /\ validate_explanation(expl[w], report[w].ast_delta) # <<>>

\* C5, as stated: in strict mode validation errors abort the call with all
\* the errors, before any write, and no lock is acquired.
C5_StrictRejectTakesNoLock ==
    \A w \in Workers :
        StrictErrors(w) =>
            /\ result[w].error.kind = "ExplanationInvalid"
            /\ result[w].error.errors = validate_explanation(expl[w], report[w].ast_delta)
            /\ effects[w] = <<>>
            /\ held[w] = {}

\* C5, amended: in strict mode, whenever validation reports at least one
\* error the call aborts before the write with an error carrying every
\* reported failure; the cross-process file lock is not acquired, no
\* snapshot is made, the target is not written and no report is persisted.
\* The in-process mutex, taken at entry, is the only lock held, and it is
\* released.
C5_StrictRejectAborts ==
    \A w \in Workers :
        StrictErrors(w) =>
            /\ pc[w] = "done"
            /\ ~result[w].ok
            /\ result[w].error.kind = "ExplanationInvalid"
            /\ result[w].error.errors = validate_explanation(expl[w], report[w].ast_delta)
            /\ effects[w] = <<>>
            /\ <<fs, reports, snaps>> = before[w]
            /\ held[w] = {"mutex"}
            /\ apply_mutex[procOf(w)] # w
C5_Witness ==
    \E w \in Workers :
        /\ StrictErrors(w)
        /\ result[w].error.kind = "ExplanationInvalid"
        /\ Len(result[w].error.errors) >= 2

\* C6: a call that returns an error has not replaced the target.
C6_NoPartialCommit ==
    \A w \in Workers :
        (result[w].returned /\ ~result[w].ok) => "write" \notin Range(effects[w])

\* C7: when a call returns successfully, <report_id>.json exists in the
\* change log and holds the call's report, written once; a call that fails
\* has written no report.
C7_SuccessPersistsReport ==
    [][\A w \in Workers :
          Returns(w) =>
              IF result'[w].ok
              THEN /\ result'[w].report_id \in DOMAIN reports'
                   /\ reports'[result'[w].report_id] = Document(report[w])
                   /\ Count(effects'[w], "report") = 1
              ELSE "report" \notin Range(effects'[w])]_vars

\* C8: a call that acquired the cross-process file lock has released it,
\* and the in-process mutex, when it returns or throws.
C8_LocksReleasedOnExit ==
    [][\A w \in Workers :
          (Returns(w) /\ "flock" \in held[w]) =>
              /\ flock_owner' # procOf(w)
              /\ apply_mutex'[procOf(w)] # w]_vars

InCriticalSection ==
    {"snapshot", "write", "tmp_write", "legacy_rename", "mkstemp", "rename", "persist"}

\* C9: at most one call is between the start of its snapshot stage and the
\* end of its report persistence.
C9_MutualExclusion ==
    Cardinality({w \in Workers : pc[w] \in InCriticalSection}) <= 1

\* C10: calls of different workers that succeed return different report ids.
C10_DistinctReportIds ==
    \A a, b \in Workers :
        (a # b /\ result[a].ok /\ result[b].ok) =>
            result[a].report_id # result[b].report_id

\* the worker whose step this is wrote, or truncated, a report file
WritesReport(w) ==
    /\ Len(effects'[w]) > Len(effects[w])
    /\ effects'[w][Len(effects'[w])] \in {"report", "report_truncated"}

\* C11: a report file, once written to the change log, is never truncated,
\* rewritten or replaced by a later apply_change: no call writes a report
\* under an id that is already in the change log, and every document of the
\* change log stays what it is.
C11_PersistedReportImmutable ==
    [][\A rid \in DOMAIN reports :
          /\ rid \in DOMAIN reports'
          /\ reports'[rid] = reports[rid]
          /\ \A w \in Workers : ~(WritesReport(w) /\ ReportId(report[w]) = rid)]_vars

\* C12: a snapshot file, once stored, is never overwritten or changed by a
\* later apply: no call stores a snapshot under a name that is already in the
\* snapshot directory, and every stored snapshot keeps its content.
C12_SnapshotWriteOnce ==
    [][\A name \in DOMAIN snaps :
          /\ name \in DOMAIN snaps'
          /\ snaps'[name] = snaps[name]
          /\ \A w \in Workers :
                ~(pc[w] = "snapshot" /\ pc'[w] = "write" /\ snap'[w] = name)]_vars

\* the call of w ran validate_path, and validate_path threw
Validated(w) == "PathValidate" \in Range(trace[w])
Rejected(w) == result[w].error.kind = "SandboxViolation"

\* the path has a symbolic link among its components, in the tree the call found
HasSymlink(w) ==
    is_symlink(before[w][1], Locate(AllowedRoot(procOf(w)), req[w].path))

\* a relative path that resolves inside the allowed root, without "..", that
\* is not and does not go through a symbolic link
ValidPath(w) ==
    LET p == req[w].path IN
    /\ Len(p) > 0
    /\ ~is_absolute(p)
    /\ \A i \in 1..Len(p) : p[i] # ".."
    /\ Beneath(AllowedRoot(procOf(w)), Locate(AllowedRoot(procOf(w)), p))
    /\ ~HasSymlink(w)

\* C13: validate_path accepts every relative path inside the allowed root
\* that has no ".." and no symbolic link, whether or not the file exists, and
\* rejects with a sandbox violation, before any file is touched, every path
\* with "..", every absolute path and every path with a symbolic link.
C13_ValidatePathDecides ==
    \A w \in Workers :
        Validated(w) =>
            LET p == req[w].path IN
            /\ ValidPath(w) => ~Rejected(w)
            /\ ((\E i \in 1..Len(p) : p[i] = "..") \/ is_absolute(p) \/ HasSymlink(w))
                  => (Rejected(w) /\ touched[w] = {} /\ effects[w] = <<>>)

Target(w) == WriteLoc(env[procOf(w)].cwd, req[w].path)
\* the call of w is inside write_atomic
InWriteAtomic(w) == pc[w] \in {"write", "tmp_write", "legacy_rename", "mkstemp", "rename"}
\* <target>.tmp_write is the open temporary file of another caller than w
TmpOfAnother(w, stage) ==
    \E v \in Workers \ {w} : /\ stage[v] \in {"tmp_write", "legacy_rename"}
                             /\ Target(v) = Target(w)

\* C14: write_atomic is all or nothing.  When it returns normally the target
\* holds exactly the new content of the call; when it fails, at whichever
\* step, the call has not changed the target; in both cases no temporary
\* file of the call remains next to the target; and no step of write_atomic
\* leaves the target with anything but the whole new content.
C14_WriteAtomicAllOrNothing ==
    [][\A w \in Workers :
          (InWriteAtomic(w) /\ pc'[w] # pc[w]) =>
              LET target == Target(w)
                  new == RegFile(req[w].new_content)
                  tmp_left == \/ tmp'[UniqueTmp(w)].exists
                              \/ /\ target \in DOMAIN tmp'
                                 /\ tmp'[target].exists
                                 /\ ~TmpOfAnother(w, pc')
              IN /\ pc'[w] = "persist" => (EntryAt(fs', target) = new /\ ~tmp_left)
                 /\ pc'[w] = "done" => /\ EntryAt(fs', target) = EntryAt(fs, target)
                                       /\ "write" \notin Range(effects'[w])
                                       /\ ~tmp_left
                 /\ EntryAt(fs', target) # EntryAt(fs, target)
                       => EntryAt(fs', target) = new]_vars

\* C15: once write_atomic has replaced the target, no failure of the report
\* persistence makes the call fail: the call returns its result and the
\* target keeps the new content.
C15_PersistenceFailureNotFatal ==
    \A w \in Workers :
        ("write" \in Range(effects[w]) /\ pc[w] = "done") =>
            /\ result[w].ok
            /\ EntryAt(fs, Target(w)) = RegFile(req[w].new_content)

\* the gate of the call of w validated the explanation, and the errors it
\* reported: those of the strict rejection, or those recorded on the report
GateRan(w) ==
    /\ "GateValidate" \in Range(trace[w])
    /\ tolower(env[procOf(w)].require_explanation) = "on"
GateErrors(w) ==
    IF result[w].error.kind = "ExplanationInvalid"
    THEN result[w].error.errors ELSE report[w].explanation_errors
DeltaNames(w) == report[w].ast_delta.added_defs \cup report[w].ast_delta.removed_defs

\* the number of maximal runs of alphanumeric characters of a text
Runs(s) ==
    Cardinality({i \in 1..Len(s) : s[i] \in AlNum /\ (i = 1 \/ s[i - 1] \notin AlNum)})
HasWords(field, n) == field.is_string /\ Runs(field.text) >= n

\* C16: with an empty symbol delta, validation reports no error exactly when
\* why, risk, backout and tests are strings of at least 15, 5, 5 and 1 words
\* and touched_symbols is a list of strings.
C16_ValidWithEmptyDelta ==
    \A w \in Workers :
        (GateRan(w) /\ DeltaNames(w) = {}) =>
            (GateErrors(w) = <<>>
               <=> /\ HasWords(expl[w].why, 15)
                   /\ HasWords(expl[w].risk, 5)
                   /\ HasWords(expl[w].backout, 5)
                   /\ HasWords(expl[w].tests, 1)
                   /\ expl[w].has_touched
                   /\ \A x \in expl[w].touched_symbols : x.is_string)

\* C17: when the delta names at least one definition, validation reports
\* symbols_mismatch exactly when no name of the delta is in touched_symbols;
\* when the delta is empty it does not report it.
C17_SymbolRule ==
    \A w \in Workers :
        GateRan(w) =>
            ("symbols_mismatch" \in Range(GateErrors(w))
               <=> /\ DeltaNames(w) # {}
                   /\ ~\E n \in DeltaNames(w) :
                          expl[w].has_touched /\ JStr(n) \in expl[w].touched_symbols)
C17_Witness ==
    \E w \in Workers :
        /\ GateRan(w)
        /\ report[w].ast_delta.added_defs = {"foo"}
        /\ expl[w].touched_symbols = {JStr("bar")}
        /\ GateErrors(w) = <<"symbols_mismatch">>

\* the gate of the call of w ran under the policy m
GateRanUnder(w, m) ==
    /\ "GateValidate" \in Range(trace[w])
    /\ tolower(env[procOf(w)].explain_policy) = m
\* the call did not end at the gate
PastGate(w) ==
    /\ result[w].error.kind # "ExplanationInvalid"
    /\ pc[w] = "done" => trace[w][Len(trace[w])] # "GateValidate"
\* the errors validation produced for the call, none when it was not required
Produced(w) ==
    IF tolower(env[procOf(w)].require_explanation) = "on"
    THEN validate_explanation(expl[w], report[w].ast_delta) ELSE <<>>
Persisted(w) == "report" \in Range(effects[w])

\* C18: in advisory mode validation errors do not abort the call: it goes on
\* to the write, and the report, also as persisted, carries exactly the errors
\* that validation produced.
C18_AdvisoryRecords ==
    \A w \in Workers :
        GateRanUnder(w, "advisory") =>
            /\ PastGate(w)
            /\ report[w].explanation_errors = Produced(w)
            /\ Persisted(w) =>
                  reports[ReportId(report[w])].explanation_errors = Produced(w)
C18_Witness ==
    \E w \in Workers :
        /\ GateRanUnder(w, "advisory")
        /\ Persisted(w)
        /\ "write" \in Range(effects[w])
        /\ Len(reports[ReportId(report[w])].explanation_errors) >= 2

\* C19: in mode off validation is skipped: the call goes on to the write and
\* the report, also as persisted, carries no explanation errors whatever the
\* explanation holds.
C19_OffSkipsValidation ==
    \A w \in Workers :
        GateRanUnder(w, "off") =>
            /\ PastGate(w)
            /\ report[w].explanation_errors = <<>>
            /\ Persisted(w) => reports[ReportId(report[w])].explanation_errors = <<>>

\* C20: every persisted report document holds the assessment of the risk
\* engine for its call: the recommend-allow flag and the reasoning text the
\* engine returned.
C20_DocumentHoldsAssessment ==
    \A w \in Workers :
        Persisted(w) =>
            LET doc == reports[ReportId(report[w])] IN
            /\ {"fdqc_recommend_allow", "fdqc_reasoning"} \subseteq DOMAIN doc
            /\ doc.fdqc_recommend_allow = report[w].fdqc_recommend_allow
            /\ doc.fdqc_reasoning = report[w].fdqc_reasoning

\* C21: whatever trip and reset did before, a check of the kill switch in any
\* process answers tripped exactly when COCKPIT_EVOLVE of that process is
\* "off" or the sentinel file exists at that moment: a trip or a reset is seen
\* by the next check of every process.
C21_SwitchSeenByEveryProcess ==
    [][\A w \in Workers :
          (pc[w] = "kill" /\ pc'[w] # "kill") =>
              /\ kill_seen'[w] \in {"tripped", "alive"}
              /\ kill_seen'[w] = "tripped" <=>
                    (env[procOf(w)].evolve = "off" \/ sentinel)
              /\ kill_seen'[w] = "tripped" => result'[w].error.kind = "Halted"]_vars
\* one process saw the sentinel, another found it removed or not yet there
C21_Witness ==
    \E v, w \in Workers :
        /\ procOf(v) # procOf(w)
        /\ env[procOf(v)].evolve = "on" /\ env[procOf(w)].evolve = "on"
        /\ kill_seen[v] = "tripped"
        /\ kill_seen[w] = "alive"

\* the position of the first effect e among the effects of the call of w, 0
\* when it made none
FirstEffect(w, e) ==
    IF e \in Range(effects[w])
    THEN CHOOSE i \in DOMAIN effects[w] :
            effects[w][i] = e /\ \A j \in 1..(i - 1) : effects[w][j] # e
    ELSE 0

\* C22: in every successful call the report is saved to the change-log
\* directory before the target file is modified.
C22_ReportSavedBeforeWrite ==
    \A w \in Workers :
        (result[w].ok /\ "write" \in Range(effects[w])) =>
            /\ "report" \in Range(effects[w])
            /\ FirstEffect(w, "report") < FirstEffect(w, "write")

\* the read of the existing target of w fails in this step
ReadFails(w) ==
    LET file == EntryAt(fs, ReadLoc(fs, env[procOf(w)].cwd, req[w].path)) IN
    /\ pc[w] = "read" /\ pc'[w] # "read"
    /\ file.kind = "file"
    /\ old_content'[w] # file.val
\* the snapshot of the existing target of w is not written in this step
SnapshotFails(w) ==
    /\ pc[w] = "snapshot" /\ pc'[w] # "snapshot"
    /\ ~SnapshotSkipped(fs, env[procOf(w)].cwd, req[w].path)
    /\ "snapshot" \notin Range(effects'[w])

\* C23: when the existing target cannot be read, or its snapshot cannot be
\* written, the call ends there with an I/O error and the target keeps its
\* content; the call does not go on as if the file were empty or absent.
C23_ReadOrSnapshotFailureAborts ==
    [][\A w \in Workers :
          (ReadFails(w) \/ SnapshotFails(w)) =>
              /\ pc'[w] = "done"
              /\ result'[w].error.kind = "IoError"
              /\ fs' = fs]_vars

\* the stages of a call in the order of the pipeline
Stages ==
    <<"KillCheck", "PathValidate", "ReadOld", "BuildReport", "RiskEvaluate",
      "PolicyCheck", "Explain", "GateValidate", "AcquireLocks", "Snapshot",
      "AtomicWrite", "PersistReport", "ReleaseLocks">>
\* the stages the call of w ran: its trace without the entry of the call and
\* without the opening of the lock file, which prepares AcquireLocks
IsStage(s) == s \notin {"Start", "LockInit"}
StagesRun(w) == SelectSeq(trace[w], IsStage)
\* the errors with which a stage ends a call
StageErrors(s) ==
    CASE s = "KillCheck" -> {"Halted"}
      [] s = "PathValidate" -> {"SandboxViolation"}
      [] s = "RiskEvaluate" -> {"RiskRejected"}
      [] s = "PolicyCheck" -> {"PolicyRejected"}
      [] s = "GateValidate" -> {"ExplanationInvalid"}
      [] s \in {"ReadOld", "LockInit", "AcquireLocks", "Snapshot", "AtomicWrite"} -> {"IoError"}
      [] s = "PersistReport" -> {"IoError", "JsonError"}
      [] OTHER -> {}
\* the stage s of the call of w failed: the call ended with an error in it,
\* or it did not do what the stage is for
\*   ReadOld: the target existed when the call was made and its content was
\*     not read;
\*   AcquireLocks: the stage is over and the cross-process lock is not held;
\*   Snapshot: the snapshot file was left empty;
\*   PersistReport: the stage is over and the report file was not written.
StageFailed(w, s) ==
    \/ /\ pc[w] = "done" /\ ~result[w].ok
       /\ trace[w] # <<>>
       /\ s = (IF trace[w][Len(trace[w])] = "LockInit" THEN "AcquireLocks"
               ELSE trace[w][Len(trace[w])])
    \/ /\ s = "ReadOld" /\ "ReadOld" \in Range(trace[w])
       /\ LET file == EntryAt(before[w][1],
                              ReadLoc(before[w][1], env[procOf(w)].cwd, req[w].path))
          IN file.kind = "file" /\ old_content[w] # file.val
    \/ /\ s = "AcquireLocks" /\ "LockInit" \in Range(trace[w]) /\ pc[w] # "flock"
       /\ "flock" \notin held[w]
    \/ /\ s = "Snapshot" /\ "snapshot_truncated" \in Range(effects[w])
    \/ /\ s = "PersistReport" /\ "PersistReport" \in Range(trace[w])
       /\ "report" \notin Range(effects[w])
\* the stages that follow s in the pipeline
StagesAfter(s) ==
    {Stages[i] : i \in {j \in DOMAIN Stages : \E k \in 1..(j - 1) : Stages[k] = s}}
\* the stages run in the order of the pipeline, each at most once and the
\* risk engine once; a stage that fails ends the call with its error and no
\* later stage runs; a call that succeeded ran them all
StagesInOrder(w) ==
    /\ Len(StagesRun(w)) <= Len(Stages)
    /\ StagesRun(w) = SubSeq(Stages, 1, Len(StagesRun(w)))
    /\ Count(trace[w], "RiskEvaluate") <= 1
    /\ \A s \in Range(Stages) :
          StageFailed(w, s) =>
              /\ pc[w] = "done" /\ ~result[w].ok
              /\ result[w].error.kind \in StageErrors(s)
              /\ StagesAfter(s) \cap Range(trace[w]) = {}
    /\ (pc[w] = "done" /\ result[w].ok) => StagesRun(w) = Stages

\* C24: in every call the stages run in the order KillCheck, PathValidate,
\* ReadOld, BuildReport, RiskEvaluate, PolicyCheck, Explain or AcceptGiven,
\* GateValidate, AcquireLocks, Snapshot, AtomicWrite, PersistReport,
\* ReleaseLocks, each at most once and the risk engine once, and the first
\* stage that fails ends the call with the error of that stage, no later
\* stage running.
C24_StagesInOrder ==
    \A w \in Workers : StagesInOrder(w)

\* the call of w replaces its target in this step
Replaces(w) ==
    /\ InWriteAtomic(w)
    /\ Len(effects'[w]) > Len(effects[w])
    /\ effects'[w][Len(effects'[w])] = "write"
\* the content of the target of w: that of an absent file is empty
TargetContent(w) ==
    LET file == EntryAt(fs, Follow(fs, Target(w))) IN
    IF file.kind = "file" THEN file.val ELSE EmptyContent

\* C25: under every interleaving of calls of several processes on one target,
\* what a call recorded as the previous state is the content its atomic write
\* replaced: old_sha256 and diff of its report are computed from it and its
\* snapshot holds it.
C25_RecordedPreStateIsActual ==
    [][\A w \in Workers :
          Replaces(w) =>
              /\ report[w].old_sha256 = compute_sha256(TargetContent(w))
              /\ report[w].diff =
                    unified_diff(TargetContent(w), req[w].new_content, req[w].path)
              /\ snap[w] # <<>> => snaps[snap[w]] = TargetContent(w)]_vars

\* the call of w is past the acquisition of the cross-process lock
LockStageOver(w) == "LockInit" \in Range(trace[w]) /\ pc[w] # "flock"

\* C26: a call that could not obtain the cross-process lock, because the lock
\* file could not be created or opened or because the lock call failed, fails
\* at that point and makes no snapshot, no write and no report.
C26_LockFailureIsFatal ==
    \A w \in Workers :
        (LockStageOver(w) /\ "flock" \notin held[w]) =>
            /\ pc[w] = "done"
            /\ result[w].error.kind = "IoError"
            /\ Range(effects[w]) \cap {"snapshot", "snapshot_truncated", "write", "report",
                                        "report_truncated"} = {}

\* the keys present in a report file: all but the ones left out when empty
FileKeys(doc) ==
    {k \in DOMAIN doc :
        /\ k = "signature" => doc[k] # NoSignature
        /\ k \in {"key_id", "nonce", "tag"} => doc[k] # ""}
\* the content of a report file without its signature
SignedPart(doc) == [k \in FileKeys(doc) \ {"signature"} |-> doc[k]]

\* what a signature is: it stands for the message it was computed over
Ed25519(message) == <<"ed25519", message>>

\* C27: with a signing key configured, a persisted report carries a signature
\* computed over the document without the signature: every other key written
\* to the file is part of the signed content, so that changing it in the file
\* invalidates the signature.
C27_SignatureCoversFile ==
    \A w \in Workers :
        (env[procOf(w)].signing_key = "valid" /\ Persisted(w)) =>
            LET doc == reports[ReportId(report[w])] IN
            /\ "signature" \in FileKeys(doc)
            /\ doc.signature = Ed25519(SignedPart(doc))

\* the explanation of the call of w was produced by generate_explanation
Generated(w) ==
    /\ "Explain" \in Range(trace[w])
    /\ ~req[w].explanation.given \/ env[procOf(w)].auto_explain
\* the names in touched_symbols of the explanation of w
TouchedNames(w) == {e.v : e \in expl[w].touched_symbols}

\* C28: the explanation generate_explanation produces for a report passes
\* validate_explanation against the symbol delta of that report: the texts
\* have at least 15, 5, 5 and 1 words, touched_symbols lists at most 12 names,
\* all of them added or removed definitions, and at least one when the delta
\* is not empty.
C28_GeneratedExplanationValid ==
    \A w \in Workers :
        Generated(w) =>
            /\ validate_explanation(expl[w], report[w].ast_delta) = <<>>
            /\ HasWords(expl[w].why, 15) /\ HasWords(expl[w].risk, 5)
            /\ HasWords(expl[w].backout, 5) /\ HasWords(expl[w].tests, 1)
            /\ expl[w].has_touched
            /\ \A e \in expl[w].touched_symbols : e.is_string
            /\ Cardinality(TouchedNames(w)) <= 12
            /\ TouchedNames(w) \subseteq DeltaNames(w)
            /\ DeltaNames(w) # {} => TouchedNames(w) \cap DeltaNames(w) # {}
\* thirteen definitions changed, seven added and six removed, twelve listed
C28_Witness ==
    \E w \in Workers :
        /\ Generated(w)
        /\ Cardinality(report[w].ast_delta.added_defs) = 7
        /\ Cardinality(report[w].ast_delta.removed_defs) = 6
        /\ Cardinality(TouchedNames(w)) = 12
        /\ result[w].ok

\* C29: when no thread stalls or crashes inside a stage, every call that
\* reaches the acquisition of the cross-process lock eventually returns, with
\* a result or an error: no call that ended keeps it waiting forever.
C29_LockWaitEnds ==
    \A w \in Workers : (pc[w] = "flock") ~> (pc[w] = "done")

\* C30: with a snapshot encryption key configured, no snapshot holds the
\* previous content as plaintext: every snapshot written is ciphertext, and
\* the call that wrote it has key id, nonce and tag on its report.
C30_NoPlaintextSnapshotWithKey ==
    \A w \in Workers :
        (env[procOf(w)].snapshot_key # "none" /\ "snapshot" \in Range(effects[w])) =>
            /\ snap[w][3] = "enc"
            /\ snaps[snap[w]] = Ciphertext(before[w][1][Target(w)].val)
            /\ report[w].key_id # "" /\ report[w].nonce # "" /\ report[w].tag # ""

====
